---- MODULE Spec2Model ----
(***************************************************************************)
(* Model of client/client.go of triton-go: construction of a Client (New), *)
(* the TLS verification toggle (InsecureSkipTLSVerify), the three Execute  *)
(* variants and the error decoder (DecodeError).                           *)
(*                                                                         *)
(* Text (endpoints, paths, query strings, JSON keys) is a sequence of      *)
(* one-character strings, so that parsing and formatting are computed.     *)
(* Names of kinds, methods and error classes are plain strings.            *)
(***************************************************************************)
EXTENDS Integers, Sequences, FiniteSets, TLC

VARIABLES client, newCall, skipCalls, last

vars == <<client, newCall, skipCalls, last>>

(***************************************************************************)
(* Bounds of the model.                                                    *)
(***************************************************************************)
MaxSigners == 2

MaxSkipCalls == 2

MaxTime == 2

(***************************************************************************)
(* Text helpers.                                                           *)
(***************************************************************************)
Drop(s, n) == SubSeq(s, n + 1, Len(s))

Take(s, n) == SubSeq(s, 1, n)

HasPrefix(s, p) == Len(s) >= Len(p) /\ Take(s, Len(p)) = p

\* strings.Index for a one-character needle; 0 when absent
RECURSIVE IndexFrom(_, _, _)
IndexFrom(s, c, i) ==
    IF i > Len(s) THEN 0
    ELSE IF s[i] = c THEN i
    ELSE IndexFrom(s, c, i + 1)

Index(s, c) == IndexFrom(s, c, 1)

Contains(s, c) == Index(s, c) # 0

Count(s, c) == Cardinality({i \in 1..Len(s) : s[i] = c})

UpperCase == {"H", "C", "M", "S"}

LowerOf(c) ==
    CASE c = "H" -> "h"
      [] c = "C" -> "c"
      [] c = "M" -> "m"
      [] c = "S" -> "s"
      [] OTHER -> c

ToLower(s) == [i \in 1..Len(s) |-> LowerOf(s[i])]

IsLetter(c) == c \in {"a", "b", "c", "d", "e", "g", "h", "k", "m", "o", "s", "t", "u", "v", "x"} \cup UpperCase

IsSchemeExtra(c) == c \in {"0", "1", "2", "+", "-", "."}

(***************************************************************************)
(* net/url as used by New and the Execute variants.                        *)
(***************************************************************************)
EmptyURL ==
    [Scheme |-> <<>>, Opaque |-> <<>>, Host |-> <<>>, Path |-> <<>>,
     RawQuery |-> <<>>, ForceQuery |-> FALSE]

\* url.getScheme: [ok, scheme, rest]
RECURSIVE getSchemeAt(_, _)
getSchemeAt(rawURL, i) ==
    IF i > Len(rawURL) THEN [ok |-> TRUE, scheme |-> <<>>, rest |-> rawURL]
    ELSE IF IsLetter(rawURL[i]) THEN getSchemeAt(rawURL, i + 1)
    ELSE IF IsSchemeExtra(rawURL[i]) THEN
        IF i = 1 THEN [ok |-> TRUE, scheme |-> <<>>, rest |-> rawURL]
        ELSE getSchemeAt(rawURL, i + 1)
    ELSE IF rawURL[i] = ":" THEN
        IF i = 1 THEN [ok |-> FALSE, scheme |-> <<>>, rest |-> <<>>]
        ELSE [ok |-> TRUE, scheme |-> Take(rawURL, i - 1), rest |-> Drop(rawURL, i)]
    ELSE [ok |-> TRUE, scheme |-> <<>>, rest |-> rawURL]

getScheme(rawURL) == getSchemeAt(rawURL, 1)

FailedParse == [ok |-> FALSE, url |-> EmptyURL]

\* the split at the query: a lone trailing "?" forces an empty query,
\* otherwise the text after the first "?" is the raw query
splitQuery(r0) ==
    IF Len(r0) > 0 /\ r0[Len(r0)] = "?" /\ Count(r0, "?") = 1 THEN
        [rest |-> Take(r0, Len(r0) - 1), query |-> <<>>, force |-> TRUE]
    ELSE IF Index(r0, "?") = 0 THEN
        [rest |-> r0, query |-> <<>>, force |-> FALSE]
    ELSE [rest |-> Take(r0, Index(r0, "?") - 1), query |-> Drop(r0, Index(r0, "?")),
          force |-> FALSE]

\* the text before the first "/"
firstSegment(rest) ==
    IF Index(rest, "/") = 0 THEN rest ELSE Take(rest, Index(rest, "/") - 1)

\* the text from the first "/" on
fromSlash(authority) ==
    IF Index(authority, "/") = 0 THEN <<>> ELSE Drop(authority, Index(authority, "/") - 1)

\* opaque part, or authority and path, of the text after the scheme
parseRest(scheme, rest, base) ==
    IF ~HasPrefix(rest, <<"/">>) /\ scheme # <<>> THEN
        [ok |-> TRUE, url |-> [base EXCEPT !.Opaque = rest]]
    ELSE IF ~HasPrefix(rest, <<"/">>) /\ Contains(firstSegment(rest), ":") THEN
        FailedParse
    ELSE IF HasPrefix(rest, <<"/", "/">>) /\
            (scheme # <<>> \/ ~HasPrefix(rest, <<"/", "/", "/">>)) THEN
        [ok |-> TRUE,
         url |-> [base EXCEPT !.Host = firstSegment(Drop(rest, 2)),
                              !.Path = fromSlash(Drop(rest, 2))]]
    ELSE [ok |-> TRUE, url |-> [base EXCEPT !.Path = rest]]

parseSplit(scheme, sq) ==
    parseRest(scheme, sq.rest,
              [EmptyURL EXCEPT !.Scheme = scheme, !.RawQuery = sq.query,
                               !.ForceQuery = sq.force])

parseScheme(sch) ==
    IF ~sch.ok THEN FailedParse
    ELSE parseSplit(ToLower(sch.scheme), splitQuery(sch.rest))

\* url.Parse (no fragment, no user info, no escapes in the modelled alphabet):
\* [ok, url]
urlParse(rawURL) ==
    IF rawURL = <<"*">> THEN [ok |-> TRUE, url |-> [EmptyURL EXCEPT !.Path = <<"*">>]]
    ELSE parseScheme(getScheme(rawURL))

\* url.escape in path mode, for the modelled alphabet
EscapeChar(c) ==
    CASE c = " " -> <<"%", "2", "0">>
      [] c = "?" -> <<"%", "3", "F">>
      [] OTHER -> <<c>>

RECURSIVE EscapedPath(_)
EscapedPath(p) ==
    IF p = <<>> THEN <<>> ELSE EscapeChar(Head(p)) \o EscapedPath(Tail(p))

\* the part of (*URL).String between the scheme and the query
hierPart(u, path) ==
    (IF (u.Scheme # <<>> \/ u.Host # <<>>) /\ (u.Host # <<>> \/ u.Path # <<>>)
     THEN <<"/", "/">> ELSE <<>>)
    \o u.Host
    \o (IF path # <<>> /\ path[1] # "/" /\ u.Host # <<>> THEN <<"/">> ELSE <<>>)
    \o path

\* (*URL).String
urlString(u) ==
    (IF u.Scheme # <<>> THEN u.Scheme \o <<":">> ELSE <<>>)
    \o (IF u.Opaque # <<>> THEN u.Opaque ELSE hierPart(u, EscapedPath(u.Path)))
    \o (IF u.ForceQuery \/ u.RawQuery # <<>> THEN <<"?">> \o u.RawQuery ELSE <<>>)

(***************************************************************************)
(* Signers (authentication.Signer) and the process environment.            *)
(***************************************************************************)
NilSigner == [kind |-> "nil", id |-> "nil", fails |-> FALSE]

Signer(id, fails) == [kind |-> "signer", id |-> id, fails |-> fails]

SignerPool == {NilSigner, Signer("s1", FALSE), Signer("bad", TRUE)}

SignerLists == UNION {[1..n -> SignerPool] : n \in 0..MaxSigners}

\* Signer.Sign(dateHeader): (header value, error)
Sign(signer, dateHeader) ==
    IF signer.fails THEN [ok |-> FALSE, header |-> <<>>]
    ELSE [ok |-> TRUE, header |-> <<"Signature", signer.id>> \o dateHeader]

\* the value of SDC_KEY_ID: unset, set to the empty string, or set to a key id
EnvValues == {[set |-> FALSE, val |-> <<>>], [set |-> TRUE, val |-> <<>>],
              [set |-> TRUE, val |-> <<"k">>]}

\* os.Getenv: the empty string for an unset variable
Getenv(env) == IF env.set THEN env.val ELSE <<>>

\* authentication.NewSSHAgentSigner(keyID, accountName), which may fail
NewSSHAgentSigner(keyID, accountName, agentOk) ==
    [ok |-> agentOk, signer |-> Signer("agent", FALSE)]

(***************************************************************************)
(* Transport Builder.                                                      *)
(***************************************************************************)
DialTimeout == 30

DialKeepAlive == 30

TLSHandshakeTimeout == 10

MaxIdleConnsPerHost == 0 - 1

\* a transport builder that re-enables keep-alive on the insecure transport
httpTransportKeepAlive(insecureSkipTLSVerify) ==
    [Proxy |-> "ProxyFromEnvironment",
     DialTimeout |-> DialTimeout,
     DialKeepAlive |-> DialKeepAlive,
     TLSHandshakeTimeout |-> TLSHandshakeTimeout,
     DisableKeepAlives |-> ~insecureSkipTLSVerify,
     MaxIdleConnsPerHost |-> MaxIdleConnsPerHost,
     InsecureSkipVerify |-> insecureSkipTLSVerify]

httpTransport(insecureSkipTLSVerify) ==
    [Proxy |-> "ProxyFromEnvironment",
     DialTimeout |-> DialTimeout,
     DialKeepAlive |-> DialKeepAlive,
     TLSHandshakeTimeout |-> TLSHandshakeTimeout,
     DisableKeepAlives |-> TRUE,
     MaxIdleConnsPerHost |-> MaxIdleConnsPerHost,
     InsecureSkipVerify |-> insecureSkipTLSVerify]

(***************************************************************************)
(* Client construction.                                                    *)
(***************************************************************************)
NoClient ==
    [kind |-> "nil",
     HTTPClient |-> [kind |-> "nil", Transport |-> httpTransport(FALSE),
                     CheckRedirect |-> "nil"],
     Authorizers |-> <<>>, APIURL |-> EmptyURL, AccountName |-> <<>>,
     Endpoint |-> <<>>]

\* a filter that keeps the nil signers
FilterNilKeepsAll(signers) == signers

\* the non-nil signers of the list, in order (the loop of New)
FilterNil(signers) == SelectSeq(signers, LAMBDA key : key.kind # "nil")

\* httpClient and newClient of New (lines 66-77)
newClient(apiURL, endpoint, accountName, signers) ==
    [kind |-> "client",
     HTTPClient |-> [kind |-> "client",
                     Transport |-> httpTransport(FALSE),
                     CheckRedirect |-> "doNotFollowRedirects"],
     Authorizers |-> signers,
     APIURL |-> apiURL,
     AccountName |-> accountName,
     Endpoint |-> endpoint]

\* the default signer of New, for an empty filtered list (lines 89-100)
defaultSigner(made, authorizers, keyID, keySigner) ==
    IF Len(keyID) # 0 THEN
        IF ~keySigner.ok THEN
            [client |-> NoClient, err |-> "Problem initializing NewSSHAgentSigner"]
        ELSE [client |-> [made EXCEPT !.Authorizers =
                              Append(authorizers, keySigner.signer)],
              err |-> "nil"]
    ELSE [client |-> NoClient, err |-> "MissingKeyIdError"]

\* New after url.Parse
newParsed(parsed, endpoint, accountName, signers, authorizers, env, agentOk) ==
    IF ~parsed.ok THEN [client |-> NoClient, err |-> "invalid endpoint"]
    ELSE IF accountName = <<>> THEN
        [client |-> NoClient, err |-> "account name can not be empty"]
    ELSE IF Len(authorizers) = 0 THEN
        defaultSigner(newClient(parsed.url, endpoint, accountName, signers),
                      authorizers, Getenv(env),
                      NewSSHAgentSigner(Getenv(env), accountName, agentOk))
    ELSE [client |-> newClient(parsed.url, endpoint, accountName, signers),
          err |-> "nil"]

\* New(endpoint, accountName, signers...): [client, err]
New(endpoint, accountName, signers, env, agentOk) ==
    newParsed(urlParse(endpoint), endpoint, accountName, signers, FilterNil(signers),
              env, agentOk)

\* (*Client).InsecureSkipTLSVerify
InsecureSkipTLSVerify(c) ==
    IF c.HTTPClient.kind = "nil" THEN c
    ELSE [c EXCEPT !.HTTPClient.Transport = httpTransport(TRUE)]

\* (*Client).FormatURL
FormatURL(c, path) == c.Endpoint \o path

(***************************************************************************)
(* JSON documents of response bodies, and the Error Decoder.               *)
(* A document is its syntax class and, for an object, its members in the   *)
(* order of the text (a later duplicate key overwrites an earlier one).    *)
(***************************************************************************)
JStr(key, str) == [key |-> key, vkind |-> "string", str |-> str, num |-> 0]

JNum(key, num) == [key |-> key, vkind |-> "number", str |-> <<>>, num |-> num]

JNull(key) == [key |-> key, vkind |-> "null", str |-> <<>>, num |-> 0]

Doc(syntax, members) == [syntax |-> syntax, members |-> members]

NoBody == Doc("nil", <<>>)

FieldStatusCode == <<"S", "t", "a", "t", "u", "s", "C", "o", "d", "e">>

FieldCode == <<"C", "o", "d", "e">>

FieldMessage == <<"M", "e", "s", "s", "a", "g", "e">>

\* encoding/json matches an object key to a struct field ignoring case
MatchField(key) ==
    IF ToLower(key) = ToLower(FieldStatusCode) THEN "StatusCode"
    ELSE IF ToLower(key) = ToLower(FieldCode) THEN "Code"
    ELSE IF ToLower(key) = ToLower(FieldMessage) THEN "Message"
    ELSE "none"

ClientError(statusCode, code, message) ==
    [kind |-> "ClientError", StatusCode |-> statusCode, Code |-> code,
     Message |-> message]

ErrorOf(kind) == [kind |-> kind, StatusCode |-> 0, Code |-> <<>>, Message |-> <<>>]

NilError == ErrorOf("nil")

\* the value of member m stored into field f, when the types agree
storeField(acc, m, f) ==
    IF f = "none" \/ m.vkind = "null" THEN acc
    ELSE IF f = "StatusCode" THEN
        IF m.vkind = "number" THEN [acc EXCEPT !.val.StatusCode = m.num]
        ELSE [acc EXCEPT !.ok = FALSE]
    ELSE IF m.vkind # "string" THEN [acc EXCEPT !.ok = FALSE]
    ELSE IF f = "Code" THEN [acc EXCEPT !.val.Code = m.str]
    ELSE [acc EXCEPT !.val.Message = m.str]

\* one object member stored into the struct: [ok, val]
DecodeMember(acc, m) == storeField(acc, m, MatchField(m.key))

RECURSIVE DecodeMembers(_, _)
DecodeMembers(acc, members) ==
    IF members = <<>> THEN acc
    ELSE DecodeMembers(DecodeMember(acc, Head(members)), Tail(members))

\* json.NewDecoder(body).Decode(v) for v a *ClientError: [ok, val]
jsonDecode(v, body) ==
    IF body.syntax = "object" THEN DecodeMembers([ok |-> TRUE, val |-> v], body.members)
    ELSE IF body.syntax = "null" THEN [ok |-> TRUE, val |-> v]
    ELSE [ok |-> FALSE, val |-> v]

\* the wrapped decode error, or the populated ClientError
decodeResult(dec) ==
    IF ~dec.ok THEN ErrorOf("Error decoding error response") ELSE dec.val

\* (*Client).DecodeError
DecodeError(c, statusCode, body) ==
    decodeResult(jsonDecode(ClientError(statusCode, <<>>, <<>>), body))

(***************************************************************************)
(* Request bodies, query parameters, headers and net/http requests.        *)
(***************************************************************************)
\* json.MarshalIndent(body, "", "    "): [ok, bytes]
MarshalIndent(body) ==
    IF body = "chan" THEN [ok |-> FALSE, bytes |-> <<>>]
    ELSE [ok |-> TRUE, bytes |-> <<"{", "\n", "    ", body, "\n", "}">>]

NilValues == [kind |-> "nil", keys |-> <<>>, vals |-> <<>>]

\* a url.Values: its keys in sorted order and the value of each
Values(keys, vals) == [kind |-> "values", keys |-> keys, vals |-> vals]

\* url.QueryEscape for the modelled alphabet
QueryEscapeChar(c) == IF c = " " THEN <<"+">> ELSE <<c>>

RECURSIVE QueryEscape(_)
QueryEscape(t) ==
    IF t = <<>> THEN <<>> ELSE QueryEscapeChar(Head(t)) \o QueryEscape(Tail(t))

\* (url.Values).Encode: "k=v" pairs in key order, joined by "&"
RECURSIVE EncodeFrom(_, _)
EncodeFrom(v, i) ==
    IF i > Len(v.keys) THEN <<>>
    ELSE (IF i > 1 THEN <<"&">> ELSE <<>>)
         \o QueryEscape(v.keys[i]) \o <<"=">> \o QueryEscape(v.vals[i])
         \o EncodeFrom(v, i + 1)

Encode(v) == EncodeFrom(v, 1)

\* textproto.CanonicalMIMEHeaderKey for the header names the client sets
CanonicalMIMEHeaderKey(k) == IF k = "date" THEN "Date" ELSE k

\* the header with the values of the canonical key ck replaced by v
setCanonical(h, ck, v) ==
    [x \in DOMAIN h \cup {ck} |-> IF x = ck THEN <<v>> ELSE h[x]]

\* (http.Header).Set
HeaderSet(h, k, v) == setCanonical(h, CanonicalMIMEHeaderKey(k), v)

NoHeader == [x \in {} |-> <<>>]

NoRequest ==
    [kind |-> "nil", Method |-> "", URL |-> EmptyURL, Header |-> NoHeader,
     Body |-> <<>>]

ValidMethod(method) == method \in {"GET", "POST", "PUT", "DELETE", "HEAD"}

newRequestParsed(m, u, body) ==
    IF ~ValidMethod(m) \/ ~u.ok THEN [ok |-> FALSE, req |-> NoRequest]
    ELSE [ok |-> TRUE,
          req |-> [kind |-> "request", Method |-> m, URL |-> u.url,
                   Header |-> NoHeader, Body |-> body]]

\* http.NewRequest(method, url, body): [ok, req]
NewRequest(method, urlStr, body) ==
    newRequestParsed(IF method = "" THEN "GET" ELSE method, urlParse(urlStr), body)

DigitOf(n) ==
    CASE n = 0 -> "0" [] n = 1 -> "1" [] n = 2 -> "2" [] n = 3 -> "3"
      [] n = 4 -> "4" [] OTHER -> "9"

\* time.Now().UTC().Format(time.RFC1123) at clock reading now
FormatRFC1123(now) == <<"Mon, 02 Jan 2006 15:04:0", DigitOf(now), " UTC">>

(***************************************************************************)
(* Request Executor.                                                       *)
(* An outcome records the calls made to the signers and to the transport   *)
(* in order (events), the request handed to the transport (req), what the  *)
(* transport returned (got) and the value returned to the caller (ret).    *)
(***************************************************************************)
StatusOK == 200

StatusMultipleChoices == 300

NoResponse == [kind |-> "none", StatusCode |-> 0, Body |-> NoBody]

TransportFailure == [kind |-> "error", StatusCode |-> 0, Body |-> NoBody]

Response(statusCode, body) == [kind |-> "response", StatusCode |-> statusCode, Body |-> body]

SignEvent(idx, arg, signed) ==
    [op |-> "Sign", idx |-> idx, arg |-> arg, ok |-> signed.ok, res |-> signed.header]

DoEvent == [op |-> "Do", idx |-> 0, arg |-> <<>>, ok |-> TRUE, res |-> <<>>]

Ret(panic, body, resp, err) == [panic |-> panic, body |-> body, resp |-> resp, err |-> err]

Outcome(events, req, got, ret) == [events |-> events, req |-> req, got |-> got, ret |-> ret]

Failed(events, kind) ==
    Outcome(events, NoRequest, NoResponse, Ret(FALSE, NoBody, NoResponse, ErrorOf(kind)))

\* the outcome of the signing step for the result signed of Sign
signResult(dated, signed, events) ==
    IF ~signed.ok THEN [status |-> "error", req |-> dated, events |-> events]
    ELSE [status |-> "ok",
          req |-> [dated EXCEPT !.Header =
                      HeaderSet(dated.Header, "Authorization", signed.header)],
          events |-> events]

signWith(c, dated, signed, dateString) ==
    signResult(dated, signed, <<SignEvent(1, dateString, signed)>>)

\* the request with its date header, signed over dateString by Authorizers[0]
signDated(c, dated, dateString) ==
    IF Len(c.Authorizers) = 0 \/ c.Authorizers[1].kind = "nil" THEN
        [status |-> "panic", req |-> dated, events |-> <<>>]
    ELSE signWith(c, dated, Sign(c.Authorizers[1], dateString), dateString)

\* a signing step that reads the clock again for the string it signs
StampAndSignSecondClock(c, req, now) ==
    signDated(c, [req EXCEPT !.Header = HeaderSet(req.Header, "date", FormatRFC1123(now))],
              FormatRFC1123(now + 1))

retryWith(dated, first, second, dateString) ==
    signResult(dated, second,
               <<SignEvent(1, dateString, first), SignEvent(2, dateString, second)>>)

fallbackWith(c, dated, first, dateString) ==
    IF ~first.ok /\ Len(c.Authorizers) > 1 /\ c.Authorizers[2].kind # "nil"
    THEN retryWith(dated, first, Sign(c.Authorizers[2], dateString), dateString)
    ELSE signWith(c, dated, first, dateString)

fallbackDated(c, dated, dateString) ==
    IF Len(c.Authorizers) = 0 \/ c.Authorizers[1].kind = "nil" THEN
        [status |-> "panic", req |-> dated, events |-> <<>>]
    ELSE fallbackWith(c, dated, Sign(c.Authorizers[1], dateString), dateString)

\* a signing step that falls back to the second signer when the first fails
StampAndSignFallback(c, req, now) ==
    fallbackDated(c, [req EXCEPT !.Header = HeaderSet(req.Header, "date", FormatRFC1123(now))],
                  FormatRFC1123(now))

\* the date header and the signature: dateHeader := time.Now()...;
\* req.Header.Set("date", dateHeader); c.Authorizers[0].Sign(dateHeader);
\* req.Header.Set("Authorization", authHeader): [status, req, events]
StampAndSign(c, req, now) ==
    signDated(c, [req EXCEPT !.Header = HeaderSet(req.Header, "date", FormatRFC1123(now))],
              FormatRFC1123(now))

contentType(h, body) ==
    IF body # "nil" THEN HeaderSet(h, "Content-Type", <<"application/json">>) ELSE h

\* the fixed headers, and Content-Type when there is a body
FixedHeaders(req, body, userAgent) ==
    [req EXCEPT !.Header =
        contentType(
            HeaderSet(
                HeaderSet(
                    HeaderSet(req.Header, "Accept", <<"application/json">>),
                    "Accept-Version", <<"8">>),
                "User-Agent", <<userAgent>>),
            body)]

\* a classification that takes 300 for a success
BodyOrErrorInclusive(c, resp) ==
    IF resp.StatusCode >= StatusOK /\ resp.StatusCode <= StatusMultipleChoices
    THEN Ret(FALSE, resp.Body, NoResponse, NilError)
    ELSE Ret(FALSE, NoBody, NoResponse, DecodeError(c, resp.StatusCode, resp.Body))

\* the tail of ExecuteRequestURIParams: body stream or decoded error
BodyOrError(c, resp) ==
    IF resp.StatusCode >= StatusOK /\ resp.StatusCode < StatusMultipleChoices
    THEN Ret(FALSE, resp.Body, NoResponse, NilError)
    ELSE Ret(FALSE, NoBody, NoResponse, DecodeError(c, resp.StatusCode, resp.Body))

\* requestBody: the marshaled body, or no body
RequestBody(body) == IF body # "nil" THEN MarshalIndent(body).bytes ELSE <<>>

\* endpoint := c.APIURL; endpoint.Path = path; endpoint.RawQuery = query.Encode()
uriParamsEndpoint(c, path, query) ==
    IF query.kind # "nil"
    THEN [c.APIURL EXCEPT !.Path = path, !.RawQuery = Encode(query)]
    ELSE [c.APIURL EXCEPT !.Path = path]

\* c.HTTPClient.Do and the classification of the response (lines 195-204)
uriParamsSend(c, events, req, net) ==
    IF net.kind = "error" THEN
        Outcome(events, req, net,
                Ret(FALSE, NoBody, NoResponse, ErrorOf("Error executing HTTP request")))
    ELSE Outcome(events, req, net, BodyOrError(c, net))

\* after the signing step (lines 183-193)
uriParamsSigned(c, signed, body, net) ==
    IF signed.status = "panic" THEN
        Outcome(signed.events, NoRequest, NoResponse,
                Ret(TRUE, NoBody, NoResponse, NilError))
    ELSE IF signed.status = "error" THEN Failed(signed.events, "Error signing HTTP request")
    ELSE uriParamsSend(c, signed.events \o <<DoEvent>>,
                       FixedHeaders(signed.req, body, "triton-go Client API"), net)

\* after http.NewRequest (lines 173-182)
uriParamsBuilt(c, built, body, now, net) ==
    IF ~built.ok THEN Failed(<<>>, "Error constructing HTTP request")
    ELSE uriParamsSigned(c, StampAndSign(c, built.req, now), body, net)

\* (*Client).ExecuteRequestURIParams; net is what the transport will answer
ExecuteRequestURIParams(c, method, path, body, query, now, net) ==
    IF body # "nil" /\ ~MarshalIndent(body).ok THEN Failed(<<>>, "MarshalError")
    ELSE uriParamsBuilt(c,
                        NewRequest(method, urlString(uriParamsEndpoint(c, path, query)),
                                   RequestBody(body)),
                        body, now, net)

\* a convenience form that drops the request body
ExecuteRequestNoBody(c, method, path, body, now, net) ==
    ExecuteRequestURIParams(c, method, path, "nil", NilValues, now, net)

\* (*Client).ExecuteRequest
ExecuteRequest(c, method, path, body, now, net) ==
    ExecuteRequestURIParams(c, method, path, body, NilValues, now, net)

\* c.HTTPClient.Do and the return of the raw response (lines 247-252)
rawSend(c, events, req, net) ==
    IF net.kind = "error" THEN
        Outcome(events, req, net,
                Ret(FALSE, NoBody, NoResponse, ErrorOf("Error executing HTTP request")))
    ELSE Outcome(events, req, net, Ret(FALSE, NoBody, net, NilError))

\* after the signing step (lines 235-245)
rawSigned(c, signed, body, net) ==
    IF signed.status = "panic" THEN
        Outcome(signed.events, NoRequest, NoResponse,
                Ret(TRUE, NoBody, NoResponse, NilError))
    ELSE IF signed.status = "error" THEN Failed(signed.events, "Error signing HTTP request")
    ELSE rawSend(c, signed.events \o <<DoEvent>>,
                 FixedHeaders(signed.req, body, "triton-go c API"), net)

\* after http.NewRequest (lines 225-234)
rawBuilt(c, built, body, now, net) ==
    IF ~built.ok THEN Failed(<<>>, "Error constructing HTTP request")
    ELSE rawSigned(c, StampAndSign(c, built.req, now), body, net)

\* (*Client).ExecuteRequestRaw
ExecuteRequestRaw(c, method, path, body, now, net) ==
    IF body # "nil" /\ ~MarshalIndent(body).ok THEN Failed(<<>>, "MarshalError")
    ELSE rawBuilt(c,
                  NewRequest(method, urlString([c.APIURL EXCEPT !.Path = path]),
                             RequestBody(body)),
                  body, now, net)

(***************************************************************************)
(* Inputs of the operations.                                               *)
(***************************************************************************)
Endpoints ==
    {<<"h", ":", "/", "/", "a">>,
     <<"h", ":", "/", "/", "a", "/", "v">>,
     <<"h", ":", "/", "/", "a", "?", "k", "=", "1">>,
     <<":", "a">>}

AccountNames == {<<>>, <<"u">>}

Methods == {"GET", "BAD METHOD"}

Paths == {<<"/", "x">>, <<"/", "y">>}

Bodies == {"nil", "obj", "chan"}

Queries == {NilValues, Values(<<>>, <<>>), Values(<<<<"k">>>>, <<<<"2", " ">>>>)}

Times == 1..MaxTime

StatusCodes == {199, 200, 299, 300, 404}

KeyCode == <<"c", "o", "d", "e">>

KeyMessage == <<"m", "e", "s", "s", "a", "g", "e">>

KeyStatusCode == <<"s", "t", "a", "t", "u", "s", "C", "o", "d", "e">>

ConflictDoc == Doc("object", <<JStr(KeyCode, <<"C">>), JStr(KeyMessage, <<"e">>)>>)

\* bodies a server answers an Execute call with
ServerBodies == {Doc("invalid", <<>>), ConflictDoc}

\* bodies handed to DecodeError
ErrorBodies ==
    ServerBodies \cup
    {Doc("object", <<>>),
     Doc("null", <<>>),
     Doc("string", <<>>),
     Doc("object", <<JStr(FieldCode, <<"C">>), JNull(KeyMessage)>>),
     Doc("object", <<JNum(KeyCode, 5)>>),
     Doc("object", <<JStr(KeyCode, <<"a">>), JStr(KeyCode, <<"b">>), JStr(<<"x">>, <<"y">>)>>),
     Doc("object", <<JNum(KeyStatusCode, 404), JStr(KeyCode, <<"C">>), JStr(KeyMessage, <<"e">>)>>)}

NetOutcomes ==
    {TransportFailure} \cup {Response(sc, b) : sc \in StatusCodes, b \in ServerBodies}

(***************************************************************************)
(* The state machine.  The Client is used by one caller at a time, as the  *)
(* calls are synchronous: last is the call that has run and not yet        *)
(* returned to its caller, and no other call starts before it returns.     *)
(***************************************************************************)
NoCall ==
    [made |-> FALSE, endpoint |-> <<>>, accountName |-> <<>>, signers |-> <<>>,
     env |-> [set |-> FALSE, val |-> <<>>], err |-> "nil"]

NoLast ==
    [op |-> "none", method |-> "", path |-> <<>>, body |-> "nil",
     query |-> NilValues, now |-> 0,
     out |-> Outcome(<<>>, NoRequest, NoResponse, Ret(FALSE, NoBody, NoResponse, NilError))]

Init ==
    /\ client = NoClient
    /\ newCall = NoCall
    /\ skipCalls = 0
    /\ last = NoLast

\* a caller constructs the Client
DoNew ==
    /\ client.kind = "nil"
    /\ \E endpoint \in Endpoints, accountName \in AccountNames,
          signers \in SignerLists, env \in EnvValues, agentOk \in BOOLEAN :
         /\ client' = New(endpoint, accountName, signers, env, agentOk).client
         /\ newCall' = [made |-> TRUE, endpoint |-> endpoint,
                        accountName |-> accountName, signers |-> signers,
                        env |-> env,
                        err |-> New(endpoint, accountName, signers, env, agentOk).err]
    /\ UNCHANGED <<skipCalls, last>>

DoInsecureSkipTLSVerify ==
    /\ client.kind = "client"
    /\ last.op = "none"
    /\ skipCalls < MaxSkipCalls
    /\ client' = InsecureSkipTLSVerify(client)
    /\ skipCalls' = skipCalls + 1
    /\ UNCHANGED <<newCall, last>>

DoExecuteRequestURIParams ==
    /\ client.kind = "client"
    /\ last.op = "none"
    /\ \E method \in Methods, path \in Paths, body \in Bodies, query \in Queries,
          now \in Times, net \in NetOutcomes :
         last' = [op |-> "ExecuteRequestURIParams", method |-> method, path |-> path,
                  body |-> body, query |-> query, now |-> now,
                  out |-> ExecuteRequestURIParams(client, method, path, body, query, now, net)]
    /\ UNCHANGED <<client, newCall, skipCalls>>

DoExecuteRequest ==
    /\ client.kind = "client"
    /\ last.op = "none"
    /\ \E method \in Methods, path \in Paths, body \in Bodies,
          now \in Times, net \in NetOutcomes :
         last' = [op |-> "ExecuteRequest", method |-> method, path |-> path,
                  body |-> body, query |-> NilValues, now |-> now,
                  out |-> ExecuteRequest(client, method, path, body, now, net)]
    /\ UNCHANGED <<client, newCall, skipCalls>>

DoExecuteRequestRaw ==
    /\ client.kind = "client"
    /\ last.op = "none"
    /\ \E method \in Methods, path \in Paths, body \in Bodies,
          now \in Times, net \in NetOutcomes :
         last' = [op |-> "ExecuteRequestRaw", method |-> method, path |-> path,
                  body |-> body, query |-> NilValues, now |-> now,
                  out |-> ExecuteRequestRaw(client, method, path, body, now, net)]
    /\ UNCHANGED <<client, newCall, skipCalls>>

DoDecodeError ==
    /\ client.kind = "client"
    /\ last.op = "none"
    /\ \E statusCode \in StatusCodes, body \in ErrorBodies :
         last' = [NoLast EXCEPT
                    !.op = "DecodeError",
                    !.out = Outcome(<<>>, NoRequest, Response(statusCode, body),
                                    Ret(FALSE, NoBody, NoResponse,
                                        DecodeError(client, statusCode, body)))]
    /\ UNCHANGED <<client, newCall, skipCalls>>

\* the call returns: its caller has the result and the Client is idle again
Return ==
    /\ last.op # "none"
    /\ last' = NoLast
    /\ UNCHANGED <<client, newCall, skipCalls>>

Next ==
    \/ DoNew
    \/ DoInsecureSkipTLSVerify
    \/ DoExecuteRequestURIParams
    \/ DoExecuteRequest
    \/ DoExecuteRequestRaw
    \/ DoDecodeError
    \/ Return

Spec == Init /\ [][Next]_vars

(***************************************************************************)
(* Properties.                                                             *)
(***************************************************************************)
ExecOps == {"ExecuteRequestURIParams", "ExecuteRequest", "ExecuteRequestRaw"}

Sent == last.op \in ExecOps /\ last.out.req.kind = "request"

SignIndexes(ev) == {i \in 1..Len(ev) : ev[i].op = "Sign"}

DoIndexes(ev) == {i \in 1..Len(ev) : ev[i].op = "Do"}

\* C1: the signer list of a Client returned by New holds no nil value, and
\* Authorizers[0], the signer every Execute call uses, is not nil.
C1_NoNilAuthorizer ==
    client.kind = "client" =>
        /\ \A i \in 1..Len(client.Authorizers) : client.Authorizers[i].kind # "nil"
        /\ Len(client.Authorizers) > 0 /\ client.Authorizers[1].kind # "nil"

\* C2: a request that reaches the send step carries exactly one date header
\* and exactly one Authorization header; the date header is the string that
\* was passed to Sign and the Authorization header is the string Sign returned.
C2_DateIsSignedString ==
    Sent =>
        LET h == last.out.req.Header
            ev == last.out.events
        IN /\ {k \in DOMAIN h : k \in {"date", "Date", "DATE"}} = {"Date"}
           /\ Len(h["Date"]) = 1
           /\ {k \in DOMAIN h : k \in {"authorization", "Authorization"}} = {"Authorization"}
           /\ Len(h["Authorization"]) = 1
           /\ SignIndexes(ev) # {}
           /\ \A i \in SignIndexes(ev) :
                 /\ ev[i].ok
                 /\ ev[i].arg = h["Date"][1]
                 /\ ev[i].res = h["Authorization"][1]

C2_Witness ==
    /\ Sent
    /\ last.op = "ExecuteRequestRaw"
    /\ last.now = MaxTime
    /\ last.out.got.kind = "response"

\* C3: an Execute call invokes Sign at most once and only on Authorizers[0];
\* the send happens only after that Sign call succeeded; when Authorizers[0]
\* fails no request is sent and the call returns a signing error, whatever
\* the later signers of the list would do.
C3_OnlyFirstSigner ==
    last.op \in ExecOps =>
        LET ev == last.out.events IN
        /\ Cardinality(SignIndexes(ev)) <= 1
        /\ \A i \in SignIndexes(ev) : ev[i].idx = 1
        /\ Cardinality(DoIndexes(ev)) <= 1
        /\ \A j \in DoIndexes(ev) : \E i \in SignIndexes(ev) : i < j /\ ev[i].ok
        /\ (last.out.req.kind = "request") = (DoIndexes(ev) # {})
        /\ \A i \in SignIndexes(ev) :
              ~ev[i].ok =>
                  /\ DoIndexes(ev) = {}
                  /\ last.out.got.kind = "none"
                  /\ last.out.ret.err.kind = "Error signing HTTP request"
                  /\ ~last.out.ret.panic
        /\ (client.Authorizers[1].kind = "signer" /\ client.Authorizers[1].fails) =>
              DoIndexes(ev) = {}

C3_Witness ==
    /\ last.op = "ExecuteRequest"
    /\ client.Authorizers = <<Signer("bad", TRUE), Signer("s1", FALSE)>>
    /\ last.out.events # <<>>
    /\ last.out.ret.err.kind = "Error signing HTTP request"

\* C4: once the transport has returned a response to ExecuteRequestURIParams
\* or ExecuteRequest, the call returns the body stream and a nil error exactly
\* when the status is in [200, 300), and that stream is the server's body;
\* otherwise it returns no stream and a StructuredError or a decode error.
C4_BodyIffSuccess ==
    (last.op \in {"ExecuteRequestURIParams", "ExecuteRequest"}
        /\ last.out.got.kind = "response") =>
        LET sc == last.out.got.StatusCode
            ret == last.out.ret
        IN /\ ~ret.panic
           /\ (ret.err.kind = "nil") = (sc >= 200 /\ sc < 300)
           /\ (ret.body # NoBody) = (sc >= 200 /\ sc < 300)
           /\ (sc >= 200 /\ sc < 300) => ret.body = last.out.got.Body
           /\ ~(sc >= 200 /\ sc < 300) =>
                 ret.err.kind \in {"ClientError", "Error decoding error response"}

C4_Witness ==
    /\ last.op = "ExecuteRequestURIParams"
    /\ last.out.got.kind = "response"
    /\ last.out.got.StatusCode = 299
    /\ last.out.ret.body = ConflictDoc

\* the text of the last string member of an object that names the field
RECURSIVE FieldText(_, _)
FieldText(members, field) ==
    IF members = <<>> THEN <<>>
    ELSE LET m == members[Len(members)] IN
         IF MatchField(m.key) = field /\ m.vkind = "string" THEN m.str
         ELSE FieldText(Take(members, Len(members) - 1), field)

\* an object whose code and message members are texts (or null)
WellTyped(body) ==
    /\ body.syntax = "object"
    /\ \A i \in 1..Len(body.members) :
          LET m == body.members[i] IN
          \/ m.vkind = "null"
          \/ MatchField(m.key) = "none"
          \/ MatchField(m.key) = "StatusCode" /\ m.vkind = "number"
          \/ MatchField(m.key) \in {"Code", "Message"} /\ m.vkind = "string"

\* C5: for a body that parses, DecodeError returns a StructuredError whose
\* StatusCode is the status code supplied by the caller, never a value of the
\* body, and whose Code and Message are the body's; for a body that does not
\* parse it returns a decode error.
C5_StatusCodeFromCaller ==
    last.op = "DecodeError" =>
        LET body == last.out.got.Body
            err == last.out.ret.err
        IN /\ WellTyped(body) =>
                 /\ err.kind = "ClientError"
                 /\ err.StatusCode = last.out.got.StatusCode
                 /\ err.Code = FieldText(body.members, "Code")
                 /\ err.Message = FieldText(body.members, "Message")
           /\ body.syntax = "invalid" => err.kind = "Error decoding error response"

\* C6: with a parseable endpoint and a non-empty account name, New given no
\* non-nil signer and no (or an empty) key identifier in the environment fails
\* with MissingKeyID and returns no Client; a Client that New returned has at
\* least one signer.
C6_MissingKeyID ==
    newCall.made =>
        /\ (/\ newCall.endpoint # <<":", "a">>
            /\ newCall.accountName # <<>>
            /\ \A i \in 1..Len(newCall.signers) : newCall.signers[i].kind = "nil"
            /\ (~newCall.env.set \/ newCall.env.val = <<>>))
           => (newCall.err = "MissingKeyIdError" /\ client.kind = "nil")
        /\ (newCall.err = "nil") = (client.kind = "client")
        /\ client.kind = "client" =>
              \E i \in 1..Len(client.Authorizers) : client.Authorizers[i].kind = "signer"

C6_Witness ==
    /\ newCall.made
    /\ newCall.signers = <<NilSigner>>
    /\ newCall.env = [set |-> TRUE, val |-> <<>>]
    /\ newCall.err = "MissingKeyIdError"
    /\ client.kind = "nil"

\* C7: for a Client returned by New, TLS verification is disabled exactly
\* when InsecureSkipTLSVerify has been called; no Execute call changes it, and
\* the transport differs from the original one in the verification flag only.
C7_TLSVerification ==
    client.kind = "client" =>
        /\ client.HTTPClient.kind = "client"
        /\ client.HTTPClient.CheckRedirect = "doNotFollowRedirects"
        /\ client.HTTPClient.Transport =
              [Proxy |-> "ProxyFromEnvironment",
               DialTimeout |-> 30,
               DialKeepAlive |-> 30,
               TLSHandshakeTimeout |-> 10,
               DisableKeepAlives |-> TRUE,
               MaxIdleConnsPerHost |-> 0 - 1,
               InsecureSkipVerify |-> (skipCalls > 0)]

C7_Witness ==
    /\ client.kind = "client"
    /\ skipCalls = MaxSkipCalls
    /\ Sent
    /\ client.HTTPClient.Transport.InsecureSkipVerify

\* C8: for the same Client, method, path, body and date, ExecuteRequestRaw
\* hands the transport the same request as ExecuteRequest does.
C8_SameRequest ==
    (last.op = "ExecuteRequestRaw" /\ last.out.req.kind = "request") =>
        last.out.req =
            ExecuteRequest(client, last.method, last.path, last.body, last.now,
                           last.out.got).req

\* the text before the first "?"
UpToQuery(t) == IF Contains(t, "?") THEN Take(t, Index(t, "?") - 1) ELSE t

\* C9: the URL an Execute call sends to is the endpoint followed by the given
\* path, which is the URL FormatURL yields, up to the query string.
C9_URLIsEndpointThenPath ==
    Sent =>
        /\ UpToQuery(urlString(last.out.req.URL)) = UpToQuery(client.Endpoint) \o last.path
        /\ (client.APIURL.RawQuery = <<>> =>
               UpToQuery(urlString(last.out.req.URL)) = FormatURL(client, last.path))

EmptyQuery == Values(<<>>, <<>>)

\* C10 as stated: ExecuteRequest does what ExecuteRequestURIParams does with
\* an empty query-parameter collection, for every Client.
C10_SameAsEmptyQuery ==
    last.op = "ExecuteRequest" =>
        last.out = ExecuteRequestURIParams(client, last.method, last.path, last.body,
                                           EmptyQuery, last.now, last.out.got)

\* C10 as amended: ExecuteRequest does what ExecuteRequestURIParams does with
\* no query-parameter collection (nil), and what it does with an empty one
\* for every Client whose endpoint URL carries no query string.
C10_SameAsNilQuery ==
    last.op = "ExecuteRequest" =>
        /\ last.out = ExecuteRequestURIParams(client, last.method, last.path, last.body,
                                              NilValues, last.now, last.out.got)
        /\ client.APIURL.RawQuery = <<>> =>
              last.out = ExecuteRequestURIParams(client, last.method, last.path,
                                                 last.body, EmptyQuery, last.now,
                                                 last.out.got)

C10_Witness ==
    /\ last.op = "ExecuteRequest"
    /\ client.APIURL.RawQuery = <<>>
    /\ last.body = "obj"
    /\ last.out.req.kind = "request"
    /\ last.out.got.kind = "response"

====
